---- MODULE Spec2Model ----
(***************************************************************************)
(* Model of shovel/config/config.go: the configuration Root, the safety    *)
(* check, schema derivation (AddRequiredFields, AddUniqueIndex), the       *)
(* reference validator, the table union / DDL planner and the two config   *)
(* merges (IntegrationsBySource, AllSources).                              *)
(*                                                                         *)
(* Go values are modelled structurally:                                    *)
(*   wpg.Column    [Name, Type]                                            *)
(*   wpg.Table     [Name, Columns, Unique]                                 *)
(*   dig.BlockData [Name, Column]                                          *)
(*   dig.Input     [Name, Column, Indexed]                                 *)
(*   dig.Event     [Inputs]                                                *)
(*   Source        [Name, ChainID, URL]                                    *)
(*   Integration   [Name, Enabled, Sources, Table, Block, Event]           *)
(*   Root          [Sources, Integrations]                                 *)
(* Slices are sequences, Go maps are functions over a finite key set, an   *)
(* error is the sequence of the parts of its message and nil is <<>>.      *)
(***************************************************************************)
EXTENDS Integers, Sequences, FiniteSets, TLC

VARIABLES
    conf,   \* the declared configuration (Root), mutated in place by ValidateFix
    indb,   \* the rows persisted in shovel.integrations / shovel.sources
    call    \* the last operation called, with its arguments and what it returned

vars == <<conf, indb, call>>

----------------------------------------------------------------------------
(* Generic helpers *)

Range(s) == {s[i] : i \in DOMAIN s}

SeqsUpTo(S, n) == UNION {[1..k -> S] : k \in 0..n}

Perms(S) == {p \in [1..Cardinality(S) -> S] : Range(p) = S}

PutKey(m, k, v) == [x \in DOMAIN m \cup {k} |-> IF x = k THEN v ELSE m[x]]

EmptyMap == [x \in {} |-> {}]

nil == <<>>

----------------------------------------------------------------------------
(* Collaborators outside config.go *)

\* The strings of the model's universe that carry a dangerous character.
UnsafeStrings == {"a;b", "t'u", "q--r"}

\* wstrings.Safe: nil for a safe string, an error otherwise.
Safe(val) == IF val \in UnsafeStrings THEN <<"unsafe string">> ELSE nil

\* dig.Event.Selected: the inputs bound to a column, in declaration order.
IsSelected(inp) == inp.Column /= ""

Selected(event) == SelectSeq(event.Inputs, IsSelected)

----------------------------------------------------------------------------
(* Schema derivation *)

hasBD(ig, name) == \E i \in DOMAIN ig.Block : ig.Block[i].Name = name

hasCol(ig, name) == \E i \in DOMAIN ig.Table.Columns : ig.Table.Columns[i].Name = name

addAlways(ig, name, t) ==
    [ig EXCEPT !.Block = Append(@, [Name |-> name, Column |-> name]),
               !.Table.Columns = Append(@, [Name |-> name, Type |-> t])]

\* the closure add of AddRequiredFields
add(ig, name, t) ==
    LET ig1 == IF ~hasBD(ig, name)
               THEN [ig EXCEPT !.Block = Append(@, [Name |-> name, Column |-> name])]
               ELSE ig
    IN  IF ~hasCol(ig1, name)
        THEN [ig1 EXCEPT !.Table.Columns = Append(@, [Name |-> name, Type |-> t])]
        ELSE ig1

RECURSIVE addAbiIdx(_, _, _)
\* for _, inp := range ig.Event.Selected() { if !inp.Indexed { add("abi_idx", "int2") } }
addAbiIdx(ig, sel, i) ==
    IF i > Len(sel) THEN ig
    ELSE addAbiIdx(IF ~sel[i].Indexed THEN add(ig, "abi_idx", "int2") ELSE ig, sel, i + 1)

AddRequiredFieldsLogAlways(ig) ==
    LET a1 == add(ig, "ig_name", "text")
        a2 == add(a1, "src_name", "text")
        a3 == add(a2, "block_num", "numeric")
        a4 == add(a3, "tx_idx", "int")
        a5 == add(a4, "log_idx", "int")
    IN  addAbiIdx(a5, Selected(ig.Event), 1)

AddRequiredFields(ig) ==
    LET a1 == add(ig, "ig_name", "text")
        a2 == add(a1, "src_name", "text")
        a3 == add(a2, "block_num", "numeric")
        a4 == add(a3, "tx_idx", "int")
        a5 == IF Len(Selected(ig.Event)) > 0 THEN add(a4, "log_idx", "int") ELSE a4
    IN  addAbiIdx(a5, Selected(ig.Event), 1)

possible == <<"ig_name", "src_name", "block_num", "tx_idx", "log_idx", "abi_idx">>

tableHasCol(table, name) == \E j \in DOMAIN table.Columns : table.Columns[j].Name = name

IsPossible(c) == \E i \in DOMAIN possible : possible[i] = c.Name

RECURSIVE MapNames(_)
MapNames(cols) == IF cols = <<>> THEN <<>> ELSE <<cols[1].Name>> \o MapNames(Tail(cols))

AddUniqueIndexTableOrder(table) ==
    IF Len(table.Unique) > 0 THEN table
    ELSE LET uidx == MapNames(SelectSeq(table.Columns, IsPossible))
         IN  IF Len(uidx) > 0
             THEN [table EXCEPT !.Unique = Append(@, uidx)]
             ELSE table

AddUniqueIndex(table) ==
    IF Len(table.Unique) > 0 THEN table
    ELSE LET Present(p) == tableHasCol(table, p)
             uidx == SelectSeq(possible, Present)
         IN  IF Len(uidx) > 0
             THEN [table EXCEPT !.Unique = Append(@, uidx)]
             ELSE table

----------------------------------------------------------------------------
(* Safety checker *)

\* the closure check of CheckUserInput: err is kept once set; name is not used
check(err, name, val) ==
    IF err /= nil THEN err
    ELSE LET e == Safe(val)
         IN  IF e /= nil THEN <<val>> \o e ELSE nil

RECURSIVE ColumnVisits(_)
ColumnVisits(cols) ==
    IF cols = <<>> THEN <<>>
    ELSE <<[field |-> "column name", val |-> cols[1].Name],
           [field |-> "column type", val |-> cols[1].Type]>> \o ColumnVisits(Tail(cols))

RECURSIVE IntegrationVisits(_)
IntegrationVisits(igs) ==
    IF igs = <<>> THEN <<>>
    ELSE <<[field |-> "integration name", val |-> igs[1].Name],
           [field |-> "table name", val |-> igs[1].Table.Name]>>
         \o ColumnVisits(igs[1].Table.Columns) \o IntegrationVisits(Tail(igs))

RECURSIVE SourceVisits(_)
SourceVisits(srcs) ==
    IF srcs = <<>> THEN <<>>
    ELSE <<[field |-> "source name", val |-> srcs[1].Name]>> \o SourceVisits(Tail(srcs))

\* the calls of check that CheckUserInput makes, in order
Visits(c) == IntegrationVisits(c.Integrations) \o SourceVisits(c.Sources)

RECURSIVE checkAll(_, _)
checkAll(err, visits) ==
    IF visits = <<>> THEN err
    ELSE checkAll(check(err, visits[1].field, visits[1].val), Tail(visits))

CheckUserInput(c) == checkAll(nil, Visits(c))

----------------------------------------------------------------------------
(* Reference validator *)

\* the first index of names whose name occurred at a smaller index, 0 if none
FirstDuplicate(names) ==
    LET dups == {i \in DOMAIN names : \E j \in 1..(i - 1) : names[j] = names[i]}
    IN  IF dups = {} THEN 0 ELSE CHOOSE i \in dups : \A k \in dups : i <= k

\* Len(bd.Column) > 0 and a column of that name exists
blockHasColumn(ig, bd) == bd.Column /= "" /\ tableHasCol(ig.Table, bd.Column)

\* the first selected input with no column of its name, 0 if none
FirstMissingInput(ig) ==
    LET sel == Selected(ig.Event)
        bad == {i \in DOMAIN sel : ~tableHasCol(ig.Table, sel[i].Column)}
    IN  IF bad = {} THEN 0 ELSE CHOOSE i \in bad : \A k \in bad : i <= k

\* the first block field with an empty or unknown column, 0 if none
FirstMissingBlock(ig) ==
    LET bad == {i \in DOMAIN ig.Block : ~blockHasColumn(ig, ig.Block[i])}
    IN  IF bad = {} THEN 0 ELSE CHOOSE i \in bad : \A k \in bad : i <= k

RECURSIVE InputNames(_)
InputNames(s) == IF s = <<>> THEN <<>> ELSE <<s[1].Name>> \o InputNames(Tail(s))

ValidateColRefsNoDupCols(ig) ==
    LET inames == InputNames(ig.Event.Inputs)
        bnames == InputNames(ig.Block)
        sel    == Selected(ig.Event)
    IN  IF FirstDuplicate(inames) /= 0
        THEN <<"duplicate input:", inames[FirstDuplicate(inames)]>>
        ELSE IF FirstDuplicate(bnames) /= 0
        THEN <<"duplicate block data field:", bnames[FirstDuplicate(bnames)]>>
        ELSE IF FirstMissingInput(ig) /= 0
        THEN <<"missing column for", sel[FirstMissingInput(ig)].Name>>
        ELSE IF FirstMissingBlock(ig) /= 0
        THEN <<"missing column for block.", ig.Block[FirstMissingBlock(ig)].Name>>
        ELSE nil

ValidateColRefs(ig) ==
    LET cnames == MapNames(ig.Table.Columns)
        inames == InputNames(ig.Event.Inputs)
        bnames == InputNames(ig.Block)
        sel    == Selected(ig.Event)
    IN  IF FirstDuplicate(cnames) /= 0
        THEN <<"duplicate column:", cnames[FirstDuplicate(cnames)]>>
        ELSE IF FirstDuplicate(inames) /= 0
        THEN <<"duplicate input:", inames[FirstDuplicate(inames)]>>
        ELSE IF FirstDuplicate(bnames) /= 0
        THEN <<"duplicate block data field:", bnames[FirstDuplicate(bnames)]>>
        ELSE IF FirstMissingInput(ig) /= 0
        THEN <<"missing column for", sel[FirstMissingInput(ig)].Name>>
        ELSE IF FirstMissingBlock(ig) /= 0
        THEN <<"missing column for block.", ig.Block[FirstMissingBlock(ig)].Name>>
        ELSE nil

RECURSIVE ValidateFixFrom(_, _)
\* the loop of ValidateFix from integration i on: [conf, err]
ValidateFixFrom(c, i) ==
    IF i > Len(c.Integrations) THEN [conf |-> c, err |-> nil]
    ELSE LET ig1 == AddRequiredFields(c.Integrations[i])
             ig2 == [ig1 EXCEPT !.Table = AddUniqueIndex(@)]
             c2  == [c EXCEPT !.Integrations[i] = ig2]
             e   == ValidateColRefs(ig2)
         IN  IF e /= nil
             THEN [conf |-> c2, err |-> <<"checking config for references:">> \o e]
             ELSE ValidateFixFrom(c2, i + 1)

ValidateFix(c) ==
    LET e == CheckUserInput(c)
    IN  IF e /= nil
        THEN [conf |-> c, err |-> <<"checking config for dangerous strings:">> \o e]
        ELSE ValidateFixFrom(c, 1)

----------------------------------------------------------------------------
(* Table union and the DDL planner *)

RECURSIVE unionFrom(_, _, _)
unionFrom(a, b, i) ==
    IF i > Len(b.Columns) THEN a
    ELSE unionFrom(IF tableHasCol(a, b.Columns[i].Name) THEN a
                   ELSE [a EXCEPT !.Columns = Append(@, [Name |-> b.Columns[i].Name,
                                                          Type |-> b.Columns[i].Type])],
                   b, i + 1)

union(a, b) == unionFrom(a, b, 1)

mergeTableOverwrite(nt, et) == nt

mergeTableAccumulatedFirst(nt, et) == union(et, nt)

\* nt = union(nt, et) in DDL: the new table is a, the accumulated one is b
mergeTable(nt, et) == union(nt, et)

RECURSIVE DDLTablesFrom(_, _, _)
\* the first loop of DDL: the map tables after integrations i, i+1, ...
DDLTablesFrom(c, tables, i) ==
    IF i > Len(c.Integrations) THEN tables
    ELSE LET t  == c.Integrations[i].Table
             nt == IF t.Name \in DOMAIN tables THEN mergeTable(t, tables[t.Name]) ELSE t
         IN  DDLTablesFrom(c, PutKey(tables, nt.Name, nt), i + 1)

DDLTables(c) == DDLTablesFrom(c, EmptyMap, 1)

\* wpg.Table.DDL: the statements of one table, kept as the table they are made from
TableDDL(t) == <<t>>

RECURSIVE DDLStmts(_, _)
\* the second loop of DDL, ranging over the map in the order it happens to take
DDLStmts(tables, order) ==
    IF order = <<>> THEN <<>>
    ELSE TableDDL(tables[order[1]]) \o DDLStmts(tables, Tail(order))

DDL(c, order) == DDLStmts(DDLTables(c), order)

----------------------------------------------------------------------------
(* Config merger *)

RECURSIVE PutAllByName(_, _)
PutAllByName(m, igs) ==
    IF igs = <<>> THEN m ELSE PutAllByName(PutKey(m, igs[1].Name, igs[1]), Tail(igs))

uniqIntegrationsPersistedLast(stored, declared) ==
    PutAllByName(PutAllByName(EmptyMap, declared), stored)

\* the map uniq of IntegrationsBySource
uniqIntegrations(stored, declared) ==
    PutAllByName(PutAllByName(EmptyMap, stored), declared)

RECURSIVE indexSources(_, _, _)
\* for _, src := range ig.Sources { res[src.Name] = append(res[src.Name], ig) }
indexSources(res, ig, srcs) ==
    IF srcs = <<>> THEN res
    ELSE LET n   == srcs[1].Name
             old == IF n \in DOMAIN res THEN res[n] ELSE <<>>
         IN  indexSources(PutKey(res, n, Append(old, ig)), ig, Tail(srcs))

RECURSIVE bySource(_, _, _)
bySource(res, uniq, order) ==
    IF order = <<>> THEN res
    ELSE bySource(indexSources(res, uniq[order[1]], uniq[order[1]].Sources), uniq, Tail(order))

IntegrationsBySource(stored, declared, order) ==
    bySource(EmptyMap, uniqIntegrations(stored, declared), order)

RECURSIVE PutAllByChain(_, _)
PutAllByChain(m, srcs) ==
    IF srcs = <<>> THEN m ELSE PutAllByChain(PutKey(m, srcs[1].ChainID, srcs[1]), Tail(srcs))

\* the map uniq of AllSources
uniqSources(stored, declared) ==
    PutAllByChain(PutAllByChain(EmptyMap, stored), declared)

RECURSIVE insertSorted(_, _)
insertSorted(sorted, src) ==
    IF sorted = <<>> THEN <<src>>
    ELSE IF src.ChainID < sorted[1].ChainID THEN <<src>> \o sorted
    ELSE <<sorted[1]>> \o insertSorted(Tail(sorted), src)

RECURSIVE sortByChainFrom(_, _)
sortByChainFrom(sorted, rest) ==
    IF rest = <<>> THEN sorted ELSE sortByChainFrom(insertSorted(sorted, rest[1]), Tail(rest))

sortUnsorted(res) == res

\* slices.SortFunc(res, cmp.Compare(a.ChainID, b.ChainID))
sortByChain(res) == sortByChainFrom(<<>>, res)

RECURSIVE mapValues(_, _)
mapValues(m, order) ==
    IF order = <<>> THEN <<>> ELSE <<m[order[1]]>> \o mapValues(m, Tail(order))

AllSources(stored, declared, order) ==
    sortByChain(mapValues(uniqSources(stored, declared), order))

----------------------------------------------------------------------------
(* Bounds and the values the specifications draw their inputs from *)

MaxCols == 2
MaxInputs == 2
MaxBlock == 1
MaxUnique == 1

MkTable(name, cols, unique) == [Name |-> name, Columns |-> cols, Unique |-> unique]

MkIntegration(name, enabled, sources, table, block, inputs) ==
    [Name |-> name, Enabled |-> enabled, Sources |-> sources, Table |-> table,
     Block |-> block, Event |-> [Inputs |-> inputs]]

MkRoot(sources, igs) == [Sources |-> sources, Integrations |-> igs]

NoRows == [Integrations |-> <<>>, Sources |-> <<>>]

NoCall == [op |-> "none"]

----------------------------------------------------------------------------
(* SpecDerive: schema derivation on one Integration *)

DeriveColumns ==
    {[Name |-> "x", Type |-> "text"],
     [Name |-> "tx_idx", Type |-> "text"],
     [Name |-> "abi_idx", Type |-> "text"]}

DeriveBlock == {[Name |-> "tx_idx", Column |-> "x"], [Name |-> "b", Column |-> ""]}

DeriveInputs ==
    {[Name |-> "u", Column |-> "", Indexed |-> FALSE],
     [Name |-> "in", Column |-> "x", Indexed |-> TRUE],
     [Name |-> "d", Column |-> "y", Indexed |-> FALSE]}

DeriveGroups == {<<>>, <<"x">>}

DeriveIntegrations ==
    {MkIntegration("a", TRUE, <<>>, MkTable("t", cols, unique), block, inputs) :
        cols \in SeqsUpTo(DeriveColumns, MaxCols),
        unique \in SeqsUpTo(DeriveGroups, MaxUnique),
        block \in SeqsUpTo(DeriveBlock, MaxBlock),
        inputs \in SeqsUpTo(DeriveInputs, MaxInputs)}

InitDerive ==
    /\ conf \in {MkRoot(<<>>, <<ig>>) : ig \in DeriveIntegrations}
    /\ indb = NoRows
    /\ call = NoCall

\* conf.Integrations[i].AddRequiredFields()
CallAddRequiredFields ==
    \E i \in DOMAIN conf.Integrations :
        /\ conf' = [conf EXCEPT !.Integrations[i] = AddRequiredFields(@)]
        /\ call' = [op |-> "AddRequiredFields", i |-> i, pre |-> conf.Integrations[i]]
        /\ UNCHANGED indb

\* AddUniqueIndex(&conf.Integrations[i].Table)
CallAddUniqueIndex ==
    \E i \in DOMAIN conf.Integrations :
        /\ conf' = [conf EXCEPT !.Integrations[i].Table = AddUniqueIndex(@)]
        /\ call' = [op |-> "AddUniqueIndex", i |-> i, pre |-> conf.Integrations[i]]
        /\ UNCHANGED indb

NextDerive == CallAddRequiredFields \/ CallAddUniqueIndex

SpecDerive == InitDerive /\ [][NextDerive]_vars

----------------------------------------------------------------------------
(* Vocabulary of the claims about schema derivation *)

ColumnNames(table) == {table.Columns[j].Name : j \in DOMAIN table.Columns}

ColumnsNamed(table, name) == {j \in DOMAIN table.Columns : table.Columns[j].Name = name}

BlockNamed(ig, name) == {j \in DOMAIN ig.Block : ig.Block[j].Name = name}

SelectedInputs(ig) == {inp \in Range(ig.Event.Inputs) : inp.Column /= ""}

\* the bookkeeping fields of section 4.2 with their backing types
BookkeepingType ==
    [ig_name |-> "text", src_name |-> "text", block_num |-> "numeric",
     tx_idx |-> "int", log_idx |-> "int", abi_idx |-> "int2"]

\* the fixed priority order of section 4.2
BookkeepingRank ==
    [ig_name |-> 1, src_name |-> 2, block_num |-> 3, tx_idx |-> 4, log_idx |-> 5, abi_idx |-> 6]

\* the bookkeeping fields an Integration is required to have
RequiredNames(ig) ==
    {"ig_name", "src_name", "block_num", "tx_idx"}
    \cup (IF SelectedInputs(ig) /= {} THEN {"log_idx"} ELSE {})
    \cup (IF \E inp \in SelectedInputs(ig) : ~inp.Indexed THEN {"abi_idx"} ELSE {})

IsPrefix(s, t) == Len(s) <= Len(t) /\ SubSeq(t, 1, Len(s)) = s

AfterAddRequiredFields == call.op = "AddRequiredFields"

AfterAddUniqueIndex == call.op = "AddUniqueIndex"

\* the Integration the last call was applied to, as it is now
Post == conf.Integrations[call.i]

\* C5: right after AddRequiredFields has run on an Integration, running it
\* again changes nothing: the ordered Table columns (names and types) and the
\* ordered Block bindings stay exactly as the first run left them.
C5_Idempotent ==
    AfterAddRequiredFields =>
        /\ AddRequiredFields(Post).Table.Columns = Post.Table.Columns
        /\ AddRequiredFields(Post).Block = Post.Block
        /\ AddRequiredFields(Post) = Post

\* a first run that did add columns and bindings, on an Integration with a
\* selected, non-indexed input
C5_Witness ==
    /\ AfterAddRequiredFields
    /\ Len(Post.Table.Columns) > Len(call.pre.Table.Columns)
    /\ Len(Post.Block) > Len(call.pre.Block)
    /\ \E inp \in SelectedInputs(call.pre) : ~inp.Indexed

\* C6: AddUniqueIndex leaves a Table that already has a unique group (even an
\* empty one) unchanged; otherwise it appends exactly one group, made of the
\* bookkeeping names that are columns of the Table, each once, in the fixed
\* order; and when none of the six is a column it adds no group.  The name
\* and the columns of the Table are never changed.
C6_DefaultUniqueIndex ==
    AfterAddUniqueIndex =>
        LET pre   == call.pre.Table
            post  == Post.Table
            names == DOMAIN BookkeepingRank \cap ColumnNames(pre)
        IN  /\ post.Name = pre.Name /\ post.Columns = pre.Columns
            /\ Post = [call.pre EXCEPT !.Table = post]
            /\ Len(pre.Unique) > 0 => post = pre
            /\ (Len(pre.Unique) = 0 /\ names = {}) => post.Unique = <<>>
            /\ (Len(pre.Unique) = 0 /\ names /= {}) =>
                    /\ Len(post.Unique) = 1
                    /\ Range(post.Unique[1]) = names
                    /\ \A k, l \in DOMAIN post.Unique[1] :
                          k < l => BookkeepingRank[post.Unique[1][k]]
                                     < BookkeepingRank[post.Unique[1][l]]

\* a group was inferred for a Table that lists abi_idx before tx_idx
C6_Witness ==
    /\ AfterAddUniqueIndex
    /\ call.pre.Table.Unique = <<>>
    /\ Post.Table.Unique = <<<<"tx_idx", "abi_idx">>>>
    /\ \E k, l \in DOMAIN call.pre.Table.Columns :
          /\ k < l
          /\ call.pre.Table.Columns[k].Name = "abi_idx"
          /\ call.pre.Table.Columns[l].Name = "tx_idx"

\* C7: after AddRequiredFields every required bookkeeping name is a column and
\* a Block binding; what was there before is kept as a prefix, unchanged; every
\* appended column or binding carries a required name that was missing, at most
\* once, with the bookkeeping type (column) or bound to the column of the same
\* name (binding); nothing else of the Integration changes.
C7_RequiredFields ==
    AfterAddRequiredFields =>
        LET pre  == call.pre
            post == Post
            req  == RequiredNames(pre)
            newc == (Len(pre.Table.Columns) + 1)..Len(post.Table.Columns)
            newb == (Len(pre.Block) + 1)..Len(post.Block)
        IN  /\ \A n \in req : ColumnsNamed(post.Table, n) /= {} /\ BlockNamed(post, n) /= {}
            /\ IsPrefix(pre.Table.Columns, post.Table.Columns)
            /\ IsPrefix(pre.Block, post.Block)
            /\ \A j \in newc :
                  LET c == post.Table.Columns[j]
                  IN  /\ c.Name \in req
                      /\ ColumnsNamed(pre.Table, c.Name) = {}
                      /\ ColumnsNamed(post.Table, c.Name) = {j}
                      /\ c.Type = BookkeepingType[c.Name]
            /\ \A j \in newb :
                  LET b == post.Block[j]
                  IN  /\ b.Name \in req
                      /\ BlockNamed(pre, b.Name) = {}
                      /\ BlockNamed(post, b.Name) = {j}
                      /\ b.Column = b.Name
            /\ post = [pre EXCEPT !.Table.Columns = post.Table.Columns,
                                  !.Block = post.Block]

\* an Integration whose only selected input is indexed (so log_idx is required
\* and abi_idx is not) and which had declared tx_idx itself, as a column of
\* another type and as a Block binding to another column
C7_Witness ==
    /\ AfterAddRequiredFields
    /\ RequiredNames(call.pre) = {"ig_name", "src_name", "block_num", "tx_idx", "log_idx"}
    /\ ColumnsNamed(call.pre.Table, "tx_idx") /= {}
    /\ BlockNamed(call.pre, "tx_idx") /= {}
    /\ ColumnsNamed(Post.Table, "log_idx") /= {}
    /\ ColumnsNamed(Post.Table, "abi_idx") = {}

----------------------------------------------------------------------------
(* SpecFix: ValidateFix on a Root of several Integrations *)

MaxFixIgs == 2

FixColumns ==
    {<<>>,
     <<[Name |-> "x", Type |-> "text"]>>,
     <<[Name |-> "x", Type |-> "text"], [Name |-> "x", Type |-> "int"]>>,
     <<[Name |-> "a;b", Type |-> "text"]>>}

FixInputs == {<<>>, <<[Name |-> "in", Column |-> "x", Indexed |-> FALSE]>>}

FixBlock ==
    {<<>>, <<[Name |-> "b", Column |-> "x"]>>, <<[Name |-> "b", Column |-> ""]>>}

FixUnique == {<<>>, <<<<"x">>>>, <<<<"q--r">>>>}

FixIntegrations ==
    {MkIntegration("a", TRUE, <<>>, MkTable("t", cols, unique), block, inputs) :
        cols \in FixColumns, unique \in FixUnique, block \in FixBlock, inputs \in FixInputs}

InitFix ==
    /\ conf \in {MkRoot(<<>>, igs) : igs \in SeqsUpTo(FixIntegrations, MaxFixIgs)}
    /\ indb = NoRows
    /\ call = NoCall

\* err := ValidateFix(&conf)
CallValidateFix ==
    LET r == ValidateFix(conf)
    IN  /\ conf' = r.conf
        /\ call' = [op |-> "ValidateFix", pre |-> conf, err |-> r.err]
        /\ UNCHANGED indb

NextFix == CallValidateFix

SpecFix == InitFix /\ [][NextFix]_vars

ValidateFixSucceeded == call.op = "ValidateFix" /\ call.err = nil

\* C1: when ValidateFix returns no error, in every Integration of the Root
\* (a) the column bound to each selected event input is the name of exactly one
\* column of the Integration's Table and (b) each Block field has a non-empty
\* column that is the name of exactly one column of that Table.
C1_Coverage ==
    ValidateFixSucceeded =>
        \A i \in DOMAIN conf.Integrations :
            LET ig == conf.Integrations[i]
            IN  /\ \A inp \in SelectedInputs(ig) :
                      Cardinality(ColumnsNamed(ig.Table, inp.Column)) = 1
                /\ \A j \in DOMAIN ig.Block :
                      /\ ig.Block[j].Column /= ""
                      /\ Cardinality(ColumnsNamed(ig.Table, ig.Block[j].Column)) = 1

\* ValidateFix succeeded on a Root of two Integrations, one with a selected
\* input and one with a user-declared Block field
C1_Witness ==
    /\ ValidateFixSucceeded
    /\ Len(conf.Integrations) = MaxFixIgs
    /\ \E i \in DOMAIN conf.Integrations : SelectedInputs(call.pre.Integrations[i]) /= {}
    /\ \E i \in DOMAIN conf.Integrations : call.pre.Integrations[i].Block /= <<>>

\* C10: when ValidateFix returns no error, every name of every unique group of
\* every Integration's Table is the name of a column of that Table.
C10_UniqueNamesAreColumns ==
    ValidateFixSucceeded =>
        \A i \in DOMAIN conf.Integrations :
            LET t == conf.Integrations[i].Table
            IN  \A g \in DOMAIN t.Unique : Range(t.Unique[g]) \subseteq ColumnNames(t)

----------------------------------------------------------------------------
(* SpecSafe: CheckUserInput on Roots that hold unsafe strings *)

MaxSources == 1

SafeColumns ==
    {[Name |-> "x", Type |-> "text"],
     [Name |-> "a;b", Type |-> "text"],
     [Name |-> "y", Type |-> "q--r"]}

SafeSources ==
    {[Name |-> "s", ChainID |-> 1, URL |-> "u"], [Name |-> "t'u", ChainID |-> 1, URL |-> "u"]}

SafeIntegrations ==
    {MkIntegration(name, TRUE, <<>>, MkTable(tname, cols, <<>>), <<>>, <<>>) :
        name \in {"a", "a;b"}, tname \in {"t", "t'u"}, cols \in SeqsUpTo(SafeColumns, MaxCols)}

InitSafe ==
    /\ conf \in {MkRoot(srcs, igs) : srcs \in SeqsUpTo(SafeSources, MaxSources),
                                     igs \in SeqsUpTo(SafeIntegrations, MaxFixIgs)}
    /\ indb = NoRows
    /\ call = NoCall

\* err := CheckUserInput(conf)
CallCheckUserInput ==
    /\ call' = [op |-> "CheckUserInput", pre |-> conf, err |-> CheckUserInput(conf)]
    /\ UNCHANGED <<conf, indb>>

NextSafe == CallCheckUserInput

SpecSafe == InitSafe /\ [][NextSafe]_vars

\* the positions, in visiting order, of the unsafe values of a Root
UnsafeVisits(c) == {k \in DOMAIN Visits(c) : Visits(c)[k].val \in UnsafeStrings}

FirstUnsafe(c) == CHOOSE k \in UnsafeVisits(c) : \A l \in UnsafeVisits(c) : k <= l

\* C8: CheckUserInput returns no error iff every visited value is safe, and
\* otherwise its error is the one of the first unsafe value in visiting order
\* and reports both that value and the field it came from.
C8_FirstUnsafeWithField ==
    call.op = "CheckUserInput" =>
        /\ (call.err = nil) <=> (UnsafeVisits(call.pre) = {})
        /\ UnsafeVisits(call.pre) /= {} =>
              /\ Visits(call.pre)[FirstUnsafe(call.pre)].val \in Range(call.err)
              /\ Visits(call.pre)[FirstUnsafe(call.pre)].field \in Range(call.err)

\* What CheckUserInput does report: the first unsafe value, quoted, and the
\* checker's own message, without the field.
CheckUserInputReportsValueOnly ==
    call.op = "CheckUserInput" =>
        /\ (call.err = nil) <=> (UnsafeVisits(call.pre) = {})
        /\ UnsafeVisits(call.pre) /= {} =>
              call.err = <<Visits(call.pre)[FirstUnsafe(call.pre)].val>>
                         \o Safe(Visits(call.pre)[FirstUnsafe(call.pre)].val)

----------------------------------------------------------------------------
(* SpecDDL: the DDL planner on Roots whose Integrations share Tables.      *)
(* Column names are unique within each Integration's Table, the invariant  *)
(* of a Table that ValidateColRefs enforces.                               *)

MaxIgs == 3

DDLColumns ==
    {[Name |-> "x", Type |-> "int"], [Name |-> "x", Type |-> "text"],
     [Name |-> "y", Type |-> "int"]}

DDLColumnLists ==
    {cols \in SeqsUpTo(DDLColumns, MaxCols) :
        \A k, l \in DOMAIN cols : cols[k].Name = cols[l].Name => k = l}

DDLIntegrations ==
    {MkIntegration("a", TRUE, <<>>, MkTable(tname, cols, <<>>), <<>>, <<>>) :
        tname \in {"t", "u"}, cols \in DDLColumnLists}

InitDDL ==
    /\ conf \in {MkRoot(<<>>, igs) : igs \in SeqsUpTo(DDLIntegrations, MaxIgs)}
    /\ indb = NoRows
    /\ call = NoCall

\* res := DDL(conf); the map of tables is ranged over in some order
CallDDL ==
    \E order \in Perms(DOMAIN DDLTables(conf)) :
        /\ call' = [op |-> "DDL", res |-> DDL(conf, order)]
        /\ UNCHANGED <<conf, indb>>

NextDDL == CallDDL

SpecDDL == InitDDL /\ [][NextDDL]_vars

\* the Integrations of a Root that write to the table named n
Targeting(c, n) == {i \in DOMAIN c.Integrations : c.Integrations[i].Table.Name = n}

TableNames(c) == {c.Integrations[i].Table.Name : i \in DOMAIN c.Integrations}

\* the Integrations of a Root that write to table n and declare column col
Declaring(c, n, col) ==
    {i \in Targeting(c, n) : ColumnsNamed(c.Integrations[i].Table, col) /= {}}

TypeOf(table, col) == table.Columns[CHOOSE j \in ColumnsNamed(table, col) : TRUE].Type

Reordered(c, p) == [c EXCEPT !.Integrations = [k \in DOMAIN p |-> c.Integrations[p[k]]]]

\* C4: DDL hands the Table Model exactly one merged Table per distinct Table
\* name; the column names of the merged Table are the union of the column
\* names of the Integrations that target it; and listing the Integrations in
\* any other order gives merged Tables with the same column-name sets.
C4_MergedColumnSets ==
    call.op = "DDL" =>
        /\ Len(call.res) = Cardinality(TableNames(conf))
        /\ {call.res[k].Name : k \in DOMAIN call.res} = TableNames(conf)
        /\ \A k \in DOMAIN call.res :
              ColumnNames(call.res[k]) =
                  UNION {ColumnNames(conf.Integrations[i].Table) :
                            i \in Targeting(conf, call.res[k].Name)}
        /\ \A p \in Perms(DOMAIN conf.Integrations) :
              LET tables == DDLTables(Reordered(conf, p))
              IN  \A k \in DOMAIN call.res :
                      ColumnNames(tables[call.res[k].Name]) = ColumnNames(call.res[k])

\* DDL merged two Integrations that write to the same table with disjoint,
\* non-empty column sets, while another table was planned too
C4_Witness ==
    /\ call.op = "DDL"
    /\ Len(call.res) = 2
    /\ \E i, j \in DOMAIN conf.Integrations :
          /\ i < j
          /\ conf.Integrations[i].Table.Name = conf.Integrations[j].Table.Name
          /\ ColumnNames(conf.Integrations[i].Table) = {"x"}
          /\ ColumnNames(conf.Integrations[j].Table) = {"y"}

\* C9 as claimed: when two Integrations write to the same table and declare a
\* column of the same name with different types, the merged Table has that
\* column exactly once, with the type of the Integration that comes first.
C9_FirstWriterWins ==
    call.op = "DDL" =>
        \A k \in DOMAIN call.res :
            \A i, j \in Targeting(conf, call.res[k].Name) :
                \A col \in ColumnNames(conf.Integrations[i].Table)
                              \cap ColumnNames(conf.Integrations[j].Table) :
                    (i < j /\ TypeOf(conf.Integrations[i].Table, col)
                                /= TypeOf(conf.Integrations[j].Table, col)) =>
                        /\ Cardinality(ColumnsNamed(call.res[k], col)) = 1
                        /\ TypeOf(call.res[k], col) = TypeOf(conf.Integrations[i].Table, col)

\* C9 amended: the merged Table has every declared column exactly once, with
\* the type given by the last Integration of the Root's list, among those
\* writing to that table, that declares the column.
C9_LastDeclarationWins ==
    call.op = "DDL" =>
        \A k \in DOMAIN call.res :
            \A col \in ColumnNames(call.res[k]) :
                LET decl == Declaring(conf, call.res[k].Name, col)
                    last == CHOOSE i \in decl : \A j \in decl : j <= i
                IN  /\ decl /= {}
                    /\ Cardinality(ColumnsNamed(call.res[k], col)) = 1
                    /\ TypeOf(call.res[k], col) = TypeOf(conf.Integrations[last].Table, col)

\* three Integrations write to the same table: the first two declare x with
\* different types and the third does not declare x
C9_Witness ==
    /\ call.op = "DDL"
    /\ Len(conf.Integrations) = 3
    /\ Targeting(conf, "t") = {1, 2, 3}
    /\ Declaring(conf, "t", "x") = {1, 2}
    /\ TypeOf(conf.Integrations[1].Table, "x") /= TypeOf(conf.Integrations[2].Table, "x")
    /\ TypeOf(call.res[1], "x") = TypeOf(conf.Integrations[2].Table, "x")

----------------------------------------------------------------------------
(* SpecBySource and SpecAllSources: the two merges of declared and        *)
(* persisted records                                                       *)

\* the persisted and the declared records number at most MaxRecords together
MaxRecords == 3

\* the pairs <<stored, declared>> of lists over S within the bound
StoredAndDeclared(S) ==
    UNION {[1..jk[1] -> S] \X [1..jk[2] -> S] :
              jk \in {x \in (0..MaxRecords) \X (0..MaxRecords) : x[1] + x[2] <= MaxRecords}}

MkSource(name, chain, url) == [Name |-> name, ChainID |-> chain, URL |-> url]

MergeSourceLists ==
    {<<MkSource("s1", 1, "u")>>,
     <<MkSource("s2", 2, "u"), MkSource("s1", 1, "u")>>,
     <<MkSource("s2", 2, "u"), MkSource("s2", 3, "u")>>}

MergeIntegrations ==
    {MkIntegration(name, enabled, srcs, MkTable("t", <<>>, <<>>), <<>>, <<>>) :
        name \in {"a", "b"}, enabled \in BOOLEAN, srcs \in MergeSourceLists}

MergeSources == {MkSource("s", chain, url) : chain \in {1, 2, 3}, url \in {"u1", "u2"}}

\* the error of a failed query, scan or decode
dbError == <<"loading db integrations:", "querying:", "pg error">>

InitBySource ==
    \E sd \in StoredAndDeclared(MergeIntegrations) :
        /\ indb = [Integrations |-> sd[1], Sources |-> <<>>]
        /\ conf = MkRoot(<<>>, sd[2])
        /\ call = NoCall

\* res, err := conf.IntegrationsBySource(ctx, pg)
CallIntegrationsBySource ==
    /\ \/ call' = [op |-> "IntegrationsBySource", err |-> dbError, res |-> EmptyMap]
       \/ \E order \in Perms(DOMAIN uniqIntegrations(indb.Integrations, conf.Integrations)) :
             call' = [op |-> "IntegrationsBySource", err |-> nil,
                      res |-> IntegrationsBySource(indb.Integrations, conf.Integrations, order)]
    /\ UNCHANGED <<conf, indb>>

NextBySource == CallIntegrationsBySource

SpecBySource == InitBySource /\ [][NextBySource]_vars

InitAllSources ==
    \E sd \in StoredAndDeclared(MergeSources) :
        /\ indb = [Integrations |-> <<>>, Sources |-> sd[1]]
        /\ conf = MkRoot(sd[2], <<>>)
        /\ call = NoCall

\* res, err := conf.AllSources(ctx, pgp)
CallAllSources ==
    /\ \/ call' = [op |-> "AllSources", err |-> dbError, res |-> <<>>]
       \/ \E order \in Perms(DOMAIN uniqSources(indb.Sources, conf.Sources)) :
             call' = [op |-> "AllSources", err |-> nil,
                      res |-> AllSources(indb.Sources, conf.Sources, order)]
    /\ UNCHANGED <<conf, indb>>

NextAllSources == CallAllSources

SpecAllSources == InitAllSources /\ [][NextAllSources]_vars

\* the last record of a list that has key k under the key function key
LastWith(recs, key(_), k) ==
    recs[CHOOSE i \in DOMAIN recs :
            /\ key(recs[i]) = k
            /\ \A j \in DOMAIN recs : key(recs[j]) = k => j <= i]

NameOf(r) == r.Name

ChainOf(r) == r.ChainID

Keys(recs, key(_)) == {key(recs[i]) : i \in DOMAIN recs}

\* the record that stands for key k: a declared one if any, else a persisted one
Effective(stored, declared, key(_), k) ==
    IF k \in Keys(declared, key) THEN LastWith(declared, key, k) ELSE LastWith(stored, key, k)

\* the places where Integration ig lists a Source named s
Listing(ig, s) == {k \in DOMAIN ig.Sources : ig.Sources[k].Name = s}

\* C2: when the query succeeds, the result of IntegrationsBySource has one
\* effective Integration per name of either list, the declared record if the
\* name is declared and the persisted one otherwise; its keys are the source
\* names the effective Integrations list, and under each source name stand
\* exactly the effective Integrations that list it, once per listing.
C2_MergePrecedence ==
    (call.op = "IntegrationsBySource" /\ call.err = nil) =>
        LET stored   == indb.Integrations
            declared == conf.Integrations
            names    == Keys(stored, NameOf) \cup Keys(declared, NameOf)
            eff      == {Effective(stored, declared, NameOf, n) : n \in names}
        IN  /\ Cardinality(eff) = Cardinality(names)
            /\ DOMAIN call.res = {src.Name : src \in UNION {Range(ig.Sources) : ig \in eff}}
            /\ \A s \in DOMAIN call.res :
                  /\ Range(call.res[s]) = {ig \in eff : Listing(ig, s) /= {}}
                  /\ \A ig \in eff :
                        Cardinality({k \in DOMAIN call.res[s] : call.res[s][k] = ig})
                            = Cardinality(Listing(ig, s))

\* a persisted and a declared Integration share the name a with different
\* enabled flags and different sources, and a persisted one named b is not
\* declared: the result holds the declared a and the persisted b
C2_Witness ==
    /\ call.op = "IntegrationsBySource" /\ call.err = nil
    /\ \E i \in DOMAIN indb.Integrations, j \in DOMAIN conf.Integrations :
          /\ indb.Integrations[i].Name = "a" /\ conf.Integrations[j].Name = "a"
          /\ indb.Integrations[i].Enabled /= conf.Integrations[j].Enabled
          /\ indb.Integrations[i].Sources /= conf.Integrations[j].Sources
          /\ Len(conf.Integrations[j].Sources) = 2
          /\ \E s \in DOMAIN call.res : conf.Integrations[j] \in Range(call.res[s])
    /\ \E i \in DOMAIN indb.Integrations :
          /\ indb.Integrations[i].Name = "b"
          /\ \E s \in DOMAIN call.res : indb.Integrations[i] \in Range(call.res[s])

\* C3: when the query succeeds, AllSources returns one Source per chain
\* identifier of either list, the declared Source if the chain identifier is
\* declared and the persisted one otherwise, strictly ascending by chain
\* identifier.
C3_AllSources ==
    (call.op = "AllSources" /\ call.err = nil) =>
        LET stored   == indb.Sources
            declared == conf.Sources
            chains   == Keys(stored, ChainOf) \cup Keys(declared, ChainOf)
        IN  /\ Len(call.res) = Cardinality(chains)
            /\ Keys(call.res, ChainOf) = chains
            /\ \A k \in DOMAIN call.res :
                  /\ call.res[k] = Effective(stored, declared, ChainOf, call.res[k].ChainID)
                  /\ call.res[k].ChainID \in Keys(declared, ChainOf)
                        => call.res[k] \in Range(declared)
            /\ \A k, l \in DOMAIN call.res : k < l => call.res[k].ChainID < call.res[l].ChainID

\* chain 1 is persisted with one URL and declared with another, a higher chain
\* is persisted only and is listed before chain 1 in the table
C3_Witness ==
    /\ call.op = "AllSources" /\ call.err = nil
    /\ Len(call.res) = 2
    /\ call.res[1].ChainID = 1
    /\ \E i \in DOMAIN indb.Sources, j \in DOMAIN conf.Sources :
          /\ indb.Sources[i].ChainID = 1 /\ conf.Sources[j].ChainID = 1
          /\ indb.Sources[i].URL /= conf.Sources[j].URL
          /\ call.res[1].URL = conf.Sources[j].URL
    /\ Len(indb.Sources) = 2 /\ indb.Sources[1].ChainID > 1

====
